---- MODULE Spec2Model ----
(***************************************************************************)
(* mapwise: keyBy (src/src/keyBy.ts) and groupBy (src/src/index.ts).       *)
(*                                                                         *)
(* Both functions resolve a variadic call (items, arg2, arg3?, arg4?) into *)
(* a value transformer and an options object, then fold the input with     *)
(* forEach into a Map.  The model keeps one call frame per function and    *)
(* executes one forEach callback per step.  JavaScript is run-to-completion*)
(* so at most one call is active at a time.                                *)
(***************************************************************************)
EXTENDS Integers, Sequences, FiniteSets, TLC

\* ------------------------------------------------------------------------
\* Bounds of the exploration
\* ------------------------------------------------------------------------
MaxLen == 3
\* calls of each function in a run that repeats calls, and the longest array
\* of such a run
MaxCalls == 2
RepeatLen == 2

\* ------------------------------------------------------------------------
\* JavaScript values.  Every value is a record [t, n, s]: t is the type tag
\* (typeof, except that null carries its own tag), n the number / object
\* reference, s the string / function name.
\* ------------------------------------------------------------------------
Undefined == [t |-> "undefined", n |-> 0, s |-> ""]
Null == [t |-> "null", n |-> 0, s |-> ""]
Num(k) == [t |-> "number", n |-> k, s |-> ""]
Str(x) == [t |-> "string", n |-> 0, s |-> x]
Bool(b) == [t |-> "boolean", n |-> (IF b THEN 1 ELSE 0), s |-> ""]
Ref(r) == [t |-> "object", n |-> r, s |-> ""]
Fn(name) == [t |-> "function", n |-> 0, s |-> name]

\* typeof v
TypeOf(v) == IF v.t = "null" THEN "object" ELSE v.t

\* v == null  (true of null and undefined only)
IsNullish(v) == v.t \in {"null", "undefined"}

\* ToBoolean(v), as used by `a && b` and `if (arr)`
Truthy(v) ==
  CASE v.t \in {"undefined", "null"} -> FALSE
    [] v.t = "boolean" -> v.n = 1
    [] v.t = "number" -> v.n # 0
    [] v.t = "string" -> v.s # ""
    [] OTHER -> TRUE

\* a ?? b
Coalesce(a, b) == IF IsNullish(a) THEN b ELSE a

\* ------------------------------------------------------------------------
\* The objects of the heap: the Person records of the tests
\* (src/test/test-data.ts, src/test/keyBy.test.ts:49-52) and the objects
\* passed in the options position: { excludeNullish: true },
\* { excludeNullish: false }, an object without the field, and an object
\* that has a `call` property.
\* ------------------------------------------------------------------------
Heap ==
  << [id |-> Num(1), name |-> Str("Alice"), group |-> Str("admin")],
     [id |-> Num(1), name |-> Null, group |-> Str("user")],
     [id |-> Null, name |-> Str("Charlie"), group |-> Str("admin")],
     [excludeNullish |-> Bool(TRUE)],
     [excludeNullish |-> Bool(FALSE)],
     [unrelated |-> Num(0)],
     [call |-> Num(0), excludeNullish |-> Bool(TRUE)],
     [id |-> Num(1)] >>

Alice == Ref(1)
First == Ref(2)
Charlie == Ref(3)
OptsTrue == Ref(4)
OptsFalse == Ref(5)
OptsEmpty == Ref(6)
CallObj == Ref(7)
\* { id: 1 }, an element without name and group (src/test/keyBy.test.ts:107)
OnlyId == Ref(8)

\* `name in obj` for an object of the heap
HasProp(obj, name) == name \in DOMAIN Heap[obj.n]

\* ToPropertyKey(v) for the values used as property names
ToPropertyKey(v) ==
  CASE v.t = "string" -> v.s
    [] v.t = "object" -> "[object Object]"
    [] v.t = "function" -> "function"
    [] v.t = "number" -> "number"
    [] OTHER -> v.t

\* obj[key] for a non-nullish obj
GetProp(obj, key) ==
  IF obj.t = "object" /\ HasProp(obj, ToPropertyKey(key))
    THEN Heap[obj.n][ToPropertyKey(key)]
    ELSE Undefined

\* obj?.[key]
OptGet(obj, key) == IF IsNullish(obj) THEN Undefined ELSE GetProp(obj, key)

\* ------------------------------------------------------------------------
\* Callbacks.  A call yields [ok, v]: ok = FALSE is a thrown TypeError
\* (a property read on a null or undefined item).
\*   index           (_p, idx) => idx                       keyBy.test.ts:80
\*   group           (item) => item.group                   README.md:152
\*   groupOrUnknown  (item, index) => item ? item.group : "unknown"
\*   nullForAlice    (p) => p.name === 'Alice' ? null : p.name
\*                                                          keyBy.test.ts:42
\* ------------------------------------------------------------------------
Ok(v) == [ok |-> TRUE, v |-> v]
Thrown == [ok |-> FALSE, v |-> Undefined]

FnNames == {"index", "group", "groupOrUnknown", "nullForAlice"}

\* f(item, index)
Apply(f, item, index) ==
  CASE f.s = "index" -> Ok(index)
    [] f.s = "group" ->
         IF IsNullish(item) THEN Thrown ELSE Ok(GetProp(item, Str("group")))
    [] f.s = "groupOrUnknown" ->
         IF Truthy(item) THEN Ok(GetProp(item, Str("group"))) ELSE Ok(Str("unknown"))
    [] f.s = "nullForAlice" ->
         IF IsNullish(item) THEN Thrown
         ELSE IF GetProp(item, Str("name")) = Str("Alice") THEN Ok(Null)
         ELSE Ok(GetProp(item, Str("name")))
    [] OTHER -> Thrown

\* ------------------------------------------------------------------------
\* Map: entries in insertion order, keys compared by SameValueZero (value
\* equality for primitives, identity for objects, null # undefined).
\* ------------------------------------------------------------------------
EmptyMap == << >>

MapKeys(m) == [j \in 1..Len(m) |-> m[j].key]

MapHas(m, k) == \E j \in 1..Len(m) : m[j].key = k

MapPos(m, k) == CHOOSE j \in 1..Len(m) : m[j].key = k

\* m.get(k): the stored value, or the given default when k is not a key
MapGetOr(m, k, dflt) == IF MapHas(m, k) THEN m[MapPos(m, k)].val ELSE dflt

\* mutants of MapSet: the first write is kept; every write appends
MapSet_keepFirst(m, k, v) ==
  IF MapHas(m, k) THEN m ELSE Append(m, [key |-> k, val |-> v])

MapSet_alwaysAppend(m, k, v) == Append(m, [key |-> k, val |-> v])

\* further mutants of MapSet: an overwritten key moves to the end; null and
\* undefined are one key
MapSet_moveToEnd(m, k, v) ==
  Append(SelectSeq(m, LAMBDA e : e.key # k), [key |-> k, val |-> v])

MapSet_mergeAbsent(m, k, v) ==
  LET kk == IF IsNullish(k) THEN Undefined ELSE k
  IN IF MapHas(m, kk)
       THEN [m EXCEPT ![MapPos(m, kk)] = [key |-> kk, val |-> v]]
       ELSE Append(m, [key |-> kk, val |-> v])

\* one more mutant of MapSet: a new key is put before the others
MapSet_newestFirst(m, k, v) ==
  IF MapHas(m, k)
    THEN [m EXCEPT ![MapPos(m, k)] = [key |-> k, val |-> v]]
    ELSE <<[key |-> k, val |-> v]>> \o m

\* m.set(k, v): overwrite in place, or append a new entry
MapSet(m, k, v) ==
  IF MapHas(m, k)
    THEN [m EXCEPT ![MapPos(m, k)] = [key |-> k, val |-> v]]
    ELSE Append(m, [key |-> k, val |-> v])

\* ------------------------------------------------------------------------
\* Call arguments
\* ------------------------------------------------------------------------
ItemValues == {Null, Undefined, Alice, First, Charlie, OnlyId}

RECURSIVE SeqsUpTo(_, _)
SeqsUpTo(S, n) ==
  IF n = 0 THEN {<< >>}
  ELSE LET prev == SeqsUpTo(S, n - 1)
       IN prev \cup {Append(q, x) : q \in {p \in prev : Len(p) = n - 1}, x \in S}

ArraysUpTo(n) == {[kind |-> "array", elems |-> q] : q \in SeqsUpTo(ItemValues, n)}
Arrays == ArraysUpTo(MaxLen)

\* first arguments that are not arrays
NonArrays ==
  { [kind |-> "number", elems |-> << >>],
    [kind |-> "string", elems |-> << >>],
    [kind |-> "plain", elems |-> << >>],
    [kind |-> "set", elems |-> <<Alice, Null>>],
    [kind |-> "map", elems |-> <<Alice, First>>] }

Arg1s == Arrays \cup NonArrays
Arg2s == {Str("id"), Str("group"), Fn("index"), Fn("group"), Fn("groupOrUnknown")}
Arg3s == {Undefined, Str("name"), Fn("nullForAlice"), Fn("index"),
          OptsTrue, OptsFalse, OptsEmpty, CallObj}
Arg4s == {Undefined, OptsTrue, OptsFalse}

\* items.forEach exists (Array, Set and Map have one)
HasForEach(its) == its.kind \in {"array", "set", "map"}

\* number of callback invocations forEach makes
ForEachLen(its) == Len(its.elems)

\* the (item, index) pair forEach passes on its j-th invocation (j from 1):
\* Array passes (element, position), Set passes (value, value), Map passes
\* (value, key); the keys of the Map input are "k1", "k2".
ForEachItem(its, j) == its.elems[j]
ForEachIndex(its, j) ==
  CASE its.kind = "array" -> Num(j - 1)
    [] its.kind = "set" -> its.elems[j]
    [] OTHER -> Str(IF j = 1 THEN "k1" ELSE "k2")

VARIABLES items, arg2, arg3, arg4, active, kb, gb, klog, glog, kret, gret

vars == <<items, arg2, arg3, arg4, active, kb, gb, klog, glog, kret, gret>>

\* how a call ended: with the Map it returned, or with a throw
ReturnedCall(m) == [ok |-> TRUE, map |-> m]
ThrownCall == [ok |-> FALSE, map |-> << >>]

\* ------------------------------------------------------------------------
\* keyBy  (src/src/keyBy.ts:123-177)
\* ------------------------------------------------------------------------
IdleFrame ==
  [pc |-> "idle", valueTransformer |-> Undefined, opts |-> Undefined,
   excludeNullish |-> Undefined, result |-> EmptyMap, i |-> 0]

\* the third argument is taken as the options object
keyBy_arg3IsOpts(a3) == TypeOf(a3) = "object" /\ a3 # Null /\ ~HasProp(a3, "call")

\* mutant of keyBy_valueTransformer: a value transformer is taken only from a
\* four-argument call
keyBy_valueTransformer_needsFourth(a3, a4) ==
  IF ~keyBy_arg3IsOpts(a3) /\ TypeOf(a4) = "object" /\ a4 # Null THEN a3 ELSE Undefined

keyBy_valueTransformer(a3, a4) == IF keyBy_arg3IsOpts(a3) THEN Undefined ELSE a3

\* mutant of keyBy_opts: the fourth argument is never read
keyBy_opts_ignoreFourth(a3, a4) == IF keyBy_arg3IsOpts(a3) THEN a3 ELSE Undefined

keyBy_opts(a3, a4) ==
  IF keyBy_arg3IsOpts(a3) THEN a3
  ELSE IF TypeOf(a4) = "object" /\ a4 # Null THEN a4
  ELSE Undefined

\* mutant of keyBy_excludeNullish: the default is true
keyBy_excludeNullish_defaultTrue(opts) ==
  Coalesce(OptGet(opts, Str("excludeNullish")), Bool(TRUE))

\* opts?.excludeNullish ?? false
keyBy_excludeNullish(opts) == Coalesce(OptGet(opts, Str("excludeNullish")), Bool(FALSE))

\* mutant of keyBy_computedKey: item[key] without optional chaining
keyBy_computedKey_noOptionalChaining(item, index) ==
  IF TypeOf(arg2) = "function" THEN Apply(arg2, item, index)
  ELSE IF IsNullish(item) THEN Thrown
  ELSE Ok(GetProp(item, arg2))

\* one more mutant of keyBy_computedKey: item && item[key]
keyBy_computedKey_andChain(item, index) ==
  IF TypeOf(arg2) = "function" THEN Apply(arg2, item, index)
  ELSE IF ~Truthy(item) THEN Ok(item)
  ELSE Ok(GetProp(item, arg2))

\* the key computed for (item, index): [ok, v]
keyBy_computedKey(item, index) ==
  IF TypeOf(arg2) = "function" THEN Apply(arg2, item, index)
  ELSE Ok(OptGet(item, arg2))

\* mutant of keyBy_computedValue: the branch for a missing transformer is gone
keyBy_computedValue_noIdentity(vt, item, index) ==
  IF TypeOf(vt) = "function" THEN Apply(vt, item, index)
  ELSE Ok(OptGet(item, vt))

\* the value computed for (item, index) under value transformer vt: [ok, v]
keyBy_computedValue(vt, item, index) ==
  IF IsNullish(vt) THEN Ok(item)
  ELSE IF TypeOf(vt) = "function" THEN Apply(vt, item, index)
  ELSE Ok(OptGet(item, vt))

Ev(ev, item, index, key, val) ==
  [ev |-> ev, item |-> item, index |-> index, key |-> key, val |-> val]

\* mutant of keyBy_enter: the result Map lives outside the call
keyBy_enter_sharedResult(frame) ==
  LET opts == keyBy_opts(arg3, arg4)
  IN [frame EXCEPT !.valueTransformer = keyBy_valueTransformer(arg3, arg4),
                   !.opts = opts,
                   !.excludeNullish = keyBy_excludeNullish(opts),
                   !.i = 0]

\* the locals of a call of keyBy when it reaches forEach
keyBy_enter(frame) ==
  LET opts == keyBy_opts(arg3, arg4)
  IN [frame EXCEPT !.valueTransformer = keyBy_valueTransformer(arg3, arg4),
                   !.opts = opts,
                   !.excludeNullish = keyBy_excludeNullish(opts),
                   !.result = EmptyMap,
                   !.i = 0]

\* entry of keyBy up to the forEach call; first tells the first call of the
\* run from a later one
keyBy_start(first) ==
  /\ active = "none"
  /\ IF first THEN kb.pc = "idle"
     ELSE kb.pc \in {"returned", "threw"} /\ Len(kret) < MaxCalls
  /\ IF HasForEach(items)
       THEN /\ kb' = [keyBy_enter(kb) EXCEPT !.pc = "forEach"]
            /\ active' = "keyBy"
            /\ kret' = kret
       ELSE /\ kb' = [keyBy_enter(kb) EXCEPT !.pc = "threw"]
            /\ active' = "none"
            /\ kret' = Append(kret, ThrownCall)
  /\ klog' = << >>
  /\ UNCHANGED <<items, arg2, arg3, arg4, gb, glog, gret>>

\* the first call of keyBy
keyBy == keyBy_start(TRUE)

\* a further call of keyBy with the same arguments
keyBy_again == keyBy_start(FALSE)

\* mutants of keyBy_outcome: a nullish computed value is skipped too; a fault
\* of the value function is swallowed; the item gate is missing
keyBy_outcome_skipNullishValue(en, vt, item, index) ==
  LET key == keyBy_computedKey(item, index)
      val == keyBy_computedValue(vt, item, index)
  IN IF Truthy(en) /\ IsNullish(item)
       THEN [kind |-> "skipItem", key |-> Undefined, val |-> Undefined]
     ELSE IF ~key.ok
       THEN [kind |-> "throwKey", key |-> Undefined, val |-> Undefined]
     ELSE IF Truthy(en) /\ IsNullish(key.v)
       THEN [kind |-> "skipKey", key |-> key.v, val |-> Undefined]
     ELSE IF ~val.ok
       THEN [kind |-> "throwValue", key |-> key.v, val |-> Undefined]
     ELSE IF Truthy(en) /\ IsNullish(val.v)
       THEN [kind |-> "skipKey", key |-> key.v, val |-> Undefined]
     ELSE [kind |-> "write", key |-> key.v, val |-> val.v]

keyBy_outcome_swallowsValueFault(en, vt, item, index) ==
  LET key == keyBy_computedKey(item, index)
      val == keyBy_computedValue(vt, item, index)
  IN IF Truthy(en) /\ IsNullish(item)
       THEN [kind |-> "skipItem", key |-> Undefined, val |-> Undefined]
     ELSE IF ~key.ok
       THEN [kind |-> "throwKey", key |-> Undefined, val |-> Undefined]
     ELSE IF Truthy(en) /\ IsNullish(key.v)
       THEN [kind |-> "skipKey", key |-> key.v, val |-> Undefined]
     ELSE IF ~val.ok
       THEN [kind |-> "skipKey", key |-> key.v, val |-> Undefined]
     ELSE [kind |-> "write", key |-> key.v, val |-> val.v]

keyBy_outcome_noItemGate(en, vt, item, index) ==
  LET key == keyBy_computedKey(item, index)
      val == keyBy_computedValue(vt, item, index)
  IN IF ~key.ok
       THEN [kind |-> "throwKey", key |-> Undefined, val |-> Undefined]
     ELSE IF Truthy(en) /\ IsNullish(key.v)
       THEN [kind |-> "skipKey", key |-> key.v, val |-> Undefined]
     ELSE IF ~val.ok
       THEN [kind |-> "throwValue", key |-> key.v, val |-> Undefined]
     ELSE [kind |-> "write", key |-> key.v, val |-> val.v]

\* one more mutant of keyBy_outcome: the item gate tests item === undefined
keyBy_outcome_itemGateUndefinedOnly(en, vt, item, index) ==
  LET key == keyBy_computedKey(item, index)
      val == keyBy_computedValue(vt, item, index)
  IN IF Truthy(en) /\ item = Undefined
       THEN [kind |-> "skipItem", key |-> Undefined, val |-> Undefined]
     ELSE IF ~key.ok
       THEN [kind |-> "throwKey", key |-> Undefined, val |-> Undefined]
     ELSE IF Truthy(en) /\ IsNullish(key.v)
       THEN [kind |-> "skipKey", key |-> key.v, val |-> Undefined]
     ELSE IF ~val.ok
       THEN [kind |-> "throwValue", key |-> key.v, val |-> Undefined]
     ELSE [kind |-> "write", key |-> key.v, val |-> val.v]

\* one more mutant of keyBy_outcome: the key gate tests !computedKey
keyBy_outcome_falsyKeyGate(en, vt, item, index) ==
  LET key == keyBy_computedKey(item, index)
      val == keyBy_computedValue(vt, item, index)
  IN IF Truthy(en) /\ IsNullish(item)
       THEN [kind |-> "skipItem", key |-> Undefined, val |-> Undefined]
     ELSE IF ~key.ok
       THEN [kind |-> "throwKey", key |-> Undefined, val |-> Undefined]
     ELSE IF Truthy(en) /\ ~Truthy(key.v)
       THEN [kind |-> "skipKey", key |-> key.v, val |-> Undefined]
     ELSE IF ~val.ok
       THEN [kind |-> "throwValue", key |-> key.v, val |-> Undefined]
     ELSE [kind |-> "write", key |-> key.v, val |-> val.v]

\* one more mutant of keyBy_outcome: the key is extracted before the item gate
keyBy_outcome_keyBeforeItemGate(en, vt, item, index) ==
  LET key == keyBy_computedKey(item, index)
      val == keyBy_computedValue(vt, item, index)
  IN IF ~key.ok
       THEN [kind |-> "throwKey", key |-> Undefined, val |-> Undefined]
     ELSE IF Truthy(en) /\ IsNullish(item)
       THEN [kind |-> "skipItem", key |-> Undefined, val |-> Undefined]
     ELSE IF Truthy(en) /\ IsNullish(key.v)
       THEN [kind |-> "skipKey", key |-> key.v, val |-> Undefined]
     ELSE IF ~val.ok
       THEN [kind |-> "throwValue", key |-> key.v, val |-> Undefined]
     ELSE [kind |-> "write", key |-> key.v, val |-> val.v]

\* what one invocation of the forEach callback does with (item, index) under
\* policy en and value transformer vt: skip at the item gate, throw in the key
\* function, skip at the key gate, throw in the value function, or write
keyBy_outcome(en, vt, item, index) ==
  LET key == keyBy_computedKey(item, index)
      val == keyBy_computedValue(vt, item, index)
  IN IF Truthy(en) /\ IsNullish(item)
       THEN [kind |-> "skipItem", key |-> Undefined, val |-> Undefined]
     ELSE IF ~key.ok
       THEN [kind |-> "throwKey", key |-> Undefined, val |-> Undefined]
     ELSE IF Truthy(en) /\ IsNullish(key.v)
       THEN [kind |-> "skipKey", key |-> key.v, val |-> Undefined]
     ELSE IF ~val.ok
       THEN [kind |-> "throwValue", key |-> key.v, val |-> Undefined]
     ELSE [kind |-> "write", key |-> key.v, val |-> val.v]

\* the calls and writes one invocation of the callback makes, in order
keyBy_events(vt, out, item, index) ==
  (IF TypeOf(arg2) = "function" /\ out.kind # "skipItem"
     THEN <<Ev("key", item, index, Undefined, Undefined)>> ELSE << >>)
  \o (IF TypeOf(vt) = "function" /\ out.kind \in {"throwValue", "write"}
        THEN <<Ev("value", item, index, Undefined, Undefined)>> ELSE << >>)
  \o (IF out.kind = "write"
        THEN <<Ev("write", item, index, out.key, out.val)>> ELSE << >>)

\* mutant of keyBy_callback: the index counts the admitted items only
keyBy_callback_renumbered ==
  /\ active = "keyBy"
  /\ kb.pc = "forEach"
  /\ kb.i < ForEachLen(items)
  /\ LET item == ForEachItem(items, kb.i + 1)
         index == Num(Len(SelectSeq(klog, LAMBDA e : e.ev = "write")))
         out == keyBy_outcome(kb.excludeNullish, kb.valueTransformer, item, index)
     IN /\ kb' = CASE out.kind = "write" ->
                        [kb EXCEPT !.result = MapSet(@, out.key, out.val), !.i = @ + 1]
                    [] out.kind \in {"skipItem", "skipKey"} ->
                        [kb EXCEPT !.i = @ + 1]
                    [] OTHER ->
                        [kb EXCEPT !.pc = "threw"]
        /\ klog' = klog \o keyBy_events(kb.valueTransformer, out, item, index)
        /\ active' = IF out.kind \in {"throwKey", "throwValue"} THEN "none" ELSE active
        /\ kret' = IF out.kind \in {"throwKey", "throwValue"}
                     THEN Append(kret, ThrownCall) ELSE kret
  /\ UNCHANGED <<items, arg2, arg3, arg4, gb, glog, gret>>

\* one invocation of the forEach callback
keyBy_callback ==
  /\ active = "keyBy"
  /\ kb.pc = "forEach"
  /\ kb.i < ForEachLen(items)
  /\ LET item == ForEachItem(items, kb.i + 1)
         index == ForEachIndex(items, kb.i + 1)
         out == keyBy_outcome(kb.excludeNullish, kb.valueTransformer, item, index)
     IN /\ kb' = CASE out.kind = "write" ->
                        [kb EXCEPT !.result = MapSet(@, out.key, out.val), !.i = @ + 1]
                    [] out.kind \in {"skipItem", "skipKey"} ->
                        [kb EXCEPT !.i = @ + 1]
                    [] OTHER ->
                        [kb EXCEPT !.pc = "threw"]
        /\ klog' = klog \o keyBy_events(kb.valueTransformer, out, item, index)
        /\ active' = IF out.kind \in {"throwKey", "throwValue"} THEN "none" ELSE active
        /\ kret' = IF out.kind \in {"throwKey", "throwValue"}
                     THEN Append(kret, ThrownCall) ELSE kret
  /\ UNCHANGED <<items, arg2, arg3, arg4, gb, glog, gret>>

\* mutant of keyBy_return: the input was consumed by the loop
keyBy_return_consumesInput ==
  /\ active = "keyBy"
  /\ kb.pc = "forEach"
  /\ kb.i = ForEachLen(items)
  /\ kb' = [kb EXCEPT !.pc = "returned"]
  /\ active' = "none"
  /\ items' = [items EXCEPT !.elems = << >>]
  /\ kret' = Append(kret, ReturnedCall(kb.result))
  /\ UNCHANGED <<arg2, arg3, arg4, gb, klog, glog, gret>>

\* one more mutant of keyBy_return: the loop may stop after any element
keyBy_return_early ==
  /\ active = "keyBy"
  /\ kb.pc = "forEach"
  /\ kb.i >= 1
  /\ kb' = [kb EXCEPT !.pc = "returned"]
  /\ active' = "none"
  /\ kret' = Append(kret, ReturnedCall(kb.result))
  /\ UNCHANGED <<items, arg2, arg3, arg4, gb, klog, glog, gret>>

\* forEach is exhausted: return result
keyBy_return ==
  /\ active = "keyBy"
  /\ kb.pc = "forEach"
  /\ kb.i = ForEachLen(items)
  /\ kb' = [kb EXCEPT !.pc = "returned"]
  /\ active' = "none"
  /\ kret' = Append(kret, ReturnedCall(kb.result))
  /\ UNCHANGED <<items, arg2, arg3, arg4, gb, klog, glog, gret>>

\* the call as a whole.  keyBy_forEach(en, vt, its, n) is the outcome of the
\* first n invocations of the callback on its: the Map built so far, or the
\* throw of an invocation, which ends the loop.
RECURSIVE keyBy_forEach(_, _, _, _)
keyBy_forEach(en, vt, its, n) ==
  IF n = 0 THEN ReturnedCall(EmptyMap)
  ELSE LET before == keyBy_forEach(en, vt, its, n - 1)
           out == keyBy_outcome(en, vt, ForEachItem(its, n), ForEachIndex(its, n))
       IN IF ~before.ok THEN before
          ELSE CASE out.kind = "write" ->
                      ReturnedCall(MapSet(before.map, out.key, out.val))
                 [] out.kind \in {"skipItem", "skipKey"} -> before
                 [] OTHER -> ThrownCall

\* keyBy(its, arg2, a3, a4): what the call returns, or that it throws
keyBy_call(its, a3, a4) ==
  IF ~HasForEach(its) THEN ThrownCall
  ELSE keyBy_forEach(keyBy_excludeNullish(keyBy_opts(a3, a4)),
                     keyBy_valueTransformer(a3, a4), its, ForEachLen(its))

\* ------------------------------------------------------------------------
\* groupBy  (src/src/index.ts:131-190)
\* ------------------------------------------------------------------------
\* the third argument is taken as the options object
groupBy_arg3IsOpts(a3) == TypeOf(a3) = "object" /\ a3 # Null /\ ~HasProp(a3, "call")

groupBy_valueTransformer(a3, a4) == IF groupBy_arg3IsOpts(a3) THEN Undefined ELSE a3

groupBy_opts(a3, a4) ==
  IF groupBy_arg3IsOpts(a3) THEN a3
  ELSE IF TypeOf(a4) = "object" /\ a4 # Null THEN a4
  ELSE Undefined

\* opts?.excludeNullish ?? false
groupBy_excludeNullish(opts) == Coalesce(OptGet(opts, Str("excludeNullish")), Bool(FALSE))

\* the key computed for (item, index): [ok, v]
groupBy_computedKey(item, index) ==
  IF TypeOf(arg2) = "function" THEN Apply(arg2, item, index)
  ELSE Ok(OptGet(item, arg2))

\* the value computed for (item, index) under value transformer vt: [ok, v]
groupBy_computedValue(vt, item, index) ==
  IF IsNullish(vt) THEN Ok(item)
  ELSE IF TypeOf(vt) = "function" THEN Apply(vt, item, index)
  ELSE Ok(OptGet(item, vt))

\* mutants of groupBy_append: the value is put first; the list is replaced
groupBy_append_prepend(m, k, v) ==
  IF MapHas(m, k)
    THEN [m EXCEPT ![MapPos(m, k)].val = <<v>> \o @]
    ELSE MapSet(m, k, <<v>>)

groupBy_append_replace(m, k, v) == MapSet(m, k, <<v>>)

\* one more mutant of groupBy_append: a key that gets a value moves to the end
groupBy_append_moveToEnd(m, k, v) ==
  IF MapHas(m, k)
    THEN Append(SelectSeq(m, LAMBDA e : e.key # k),
                [key |-> k, val |-> Append(m[MapPos(m, k)].val, v)])
    ELSE MapSet(m, k, <<v>>)

\* one more mutant of groupBy_append: a new key gets an empty list
groupBy_append_emptyFirst(m, k, v) ==
  IF MapHas(m, k)
    THEN [m EXCEPT ![MapPos(m, k)].val = Append(@, v)]
    ELSE MapSet(m, k, << >>)

\* const arr = result.get(key); if (arr) arr.push(value) else result.set(key, [value])
\* (a stored array is always truthy)
groupBy_append(m, k, v) ==
  IF MapHas(m, k)
    THEN [m EXCEPT ![MapPos(m, k)].val = Append(@, v)]
    ELSE MapSet(m, k, <<v>>)

\* mutant of groupBy_enter: the result Map lives outside the call
groupBy_enter_sharedResult(frame) ==
  LET opts == groupBy_opts(arg3, arg4)
  IN [frame EXCEPT !.valueTransformer = groupBy_valueTransformer(arg3, arg4),
                   !.opts = opts,
                   !.excludeNullish = groupBy_excludeNullish(opts),
                   !.i = 0]

\* the locals of a call of groupBy when it reaches forEach
groupBy_enter(frame) ==
  LET opts == groupBy_opts(arg3, arg4)
  IN [frame EXCEPT !.valueTransformer = groupBy_valueTransformer(arg3, arg4),
                   !.opts = opts,
                   !.excludeNullish = groupBy_excludeNullish(opts),
                   !.result = EmptyMap,
                   !.i = 0]

\* entry of groupBy up to the forEach call; first tells the first call of the
\* run from a later one
groupBy_start(first) ==
  /\ active = "none"
  /\ IF first THEN gb.pc = "idle"
     ELSE gb.pc \in {"returned", "threw"} /\ Len(gret) < MaxCalls
  /\ IF HasForEach(items)
       THEN /\ gb' = [groupBy_enter(gb) EXCEPT !.pc = "forEach"]
            /\ active' = "groupBy"
            /\ gret' = gret
       ELSE /\ gb' = [groupBy_enter(gb) EXCEPT !.pc = "threw"]
            /\ active' = "none"
            /\ gret' = Append(gret, ThrownCall)
  /\ glog' = << >>
  /\ UNCHANGED <<items, arg2, arg3, arg4, kb, klog, kret>>

\* the first call of groupBy
groupBy == groupBy_start(TRUE)

\* a further call of groupBy with the same arguments
groupBy_again == groupBy_start(FALSE)

\* mutant of groupBy_outcome: the item gate is missing
groupBy_outcome_noItemGate(en, vt, item, index) ==
  LET key == groupBy_computedKey(item, index)
      val == groupBy_computedValue(vt, item, index)
  IN IF ~key.ok
       THEN [kind |-> "throwKey", key |-> Undefined, val |-> Undefined]
     ELSE IF Truthy(en) /\ IsNullish(key.v)
       THEN [kind |-> "skipKey", key |-> key.v, val |-> Undefined]
     ELSE IF ~val.ok
       THEN [kind |-> "throwValue", key |-> key.v, val |-> Undefined]
     ELSE [kind |-> "write", key |-> key.v, val |-> val.v]

\* mutant of groupBy_outcome: the key gate is missing
groupBy_outcome_noKeyGate(en, vt, item, index) ==
  LET key == groupBy_computedKey(item, index)
      val == groupBy_computedValue(vt, item, index)
  IN IF Truthy(en) /\ IsNullish(item)
       THEN [kind |-> "skipItem", key |-> Undefined, val |-> Undefined]
     ELSE IF ~key.ok
       THEN [kind |-> "throwKey", key |-> Undefined, val |-> Undefined]
     ELSE IF ~val.ok
       THEN [kind |-> "throwValue", key |-> key.v, val |-> Undefined]
     ELSE [kind |-> "write", key |-> key.v, val |-> val.v]

\* what one invocation of the forEach callback does with (item, index) under
\* policy en and value transformer vt: skip at the item gate, throw in the key
\* function, skip at the key gate, throw in the value function, or write
groupBy_outcome(en, vt, item, index) ==
  LET key == groupBy_computedKey(item, index)
      val == groupBy_computedValue(vt, item, index)
  IN IF Truthy(en) /\ IsNullish(item)
       THEN [kind |-> "skipItem", key |-> Undefined, val |-> Undefined]
     ELSE IF ~key.ok
       THEN [kind |-> "throwKey", key |-> Undefined, val |-> Undefined]
     ELSE IF Truthy(en) /\ IsNullish(key.v)
       THEN [kind |-> "skipKey", key |-> key.v, val |-> Undefined]
     ELSE IF ~val.ok
       THEN [kind |-> "throwValue", key |-> key.v, val |-> Undefined]
     ELSE [kind |-> "write", key |-> key.v, val |-> val.v]

\* the calls and writes one invocation of the callback makes, in order
groupBy_events(vt, out, item, index) ==
  (IF TypeOf(arg2) = "function" /\ out.kind # "skipItem"
     THEN <<Ev("key", item, index, Undefined, Undefined)>> ELSE << >>)
  \o (IF TypeOf(vt) = "function" /\ out.kind \in {"throwValue", "write"}
        THEN <<Ev("value", item, index, Undefined, Undefined)>> ELSE << >>)
  \o (IF out.kind = "write"
        THEN <<Ev("write", item, index, out.key, out.val)>> ELSE << >>)

\* one invocation of the forEach callback
groupBy_callback ==
  /\ active = "groupBy"
  /\ gb.pc = "forEach"
  /\ gb.i < ForEachLen(items)
  /\ LET item == ForEachItem(items, gb.i + 1)
         index == ForEachIndex(items, gb.i + 1)
         out == groupBy_outcome(gb.excludeNullish, gb.valueTransformer, item, index)
     IN /\ gb' = CASE out.kind = "write" ->
                        [gb EXCEPT !.result = groupBy_append(@, out.key, out.val), !.i = @ + 1]
                    [] out.kind \in {"skipItem", "skipKey"} ->
                        [gb EXCEPT !.i = @ + 1]
                    [] OTHER ->
                        [gb EXCEPT !.pc = "threw"]
        /\ glog' = glog \o groupBy_events(gb.valueTransformer, out, item, index)
        /\ active' = IF out.kind \in {"throwKey", "throwValue"} THEN "none" ELSE active
        /\ gret' = IF out.kind \in {"throwKey", "throwValue"}
                     THEN Append(gret, ThrownCall) ELSE gret
  /\ UNCHANGED <<items, arg2, arg3, arg4, kb, klog, kret>>

\* forEach is exhausted: return result
groupBy_return ==
  /\ active = "groupBy"
  /\ gb.pc = "forEach"
  /\ gb.i = ForEachLen(items)
  /\ gb' = [gb EXCEPT !.pc = "returned"]
  /\ active' = "none"
  /\ gret' = Append(gret, ReturnedCall(gb.result))
  /\ UNCHANGED <<items, arg2, arg3, arg4, kb, klog, glog, kret>>

\* the call as a whole.  groupBy_forEach(en, vt, its, n) is the outcome of the
\* first n invocations of the callback on its: the Map built so far, or the
\* throw of an invocation, which ends the loop.
RECURSIVE groupBy_forEach(_, _, _, _)
groupBy_forEach(en, vt, its, n) ==
  IF n = 0 THEN ReturnedCall(EmptyMap)
  ELSE LET before == groupBy_forEach(en, vt, its, n - 1)
           out == groupBy_outcome(en, vt, ForEachItem(its, n), ForEachIndex(its, n))
       IN IF ~before.ok THEN before
          ELSE CASE out.kind = "write" ->
                      ReturnedCall(groupBy_append(before.map, out.key, out.val))
                 [] out.kind \in {"skipItem", "skipKey"} -> before
                 [] OTHER -> ThrownCall

\* groupBy(its, arg2, a3, a4): what the call returns, or that it throws
groupBy_call(its, a3, a4) ==
  IF ~HasForEach(its) THEN ThrownCall
  ELSE groupBy_forEach(groupBy_excludeNullish(groupBy_opts(a3, a4)),
                     groupBy_valueTransformer(a3, a4), its, ForEachLen(its))

\* ------------------------------------------------------------------------
Init ==
  /\ items \in Arg1s
  /\ arg2 \in Arg2s
  /\ arg3 \in Arg3s
  /\ arg4 \in Arg4s
  /\ active = "none"
  /\ kb = IdleFrame
  /\ gb = IdleFrame
  /\ klog = << >>
  /\ glog = << >>
  /\ kret = << >>
  /\ gret = << >>

Next ==
  \/ keyBy
  \/ keyBy_callback
  \/ keyBy_return
  \/ groupBy
  \/ groupBy_callback
  \/ groupBy_return

Spec == Init /\ [][Next]_vars

\* Runs in which each function is called up to MaxCalls times with the same
\* arguments, on arrays up to RepeatLen.
InitRepeat ==
  /\ Init
  /\ items \in ArraysUpTo(RepeatLen) \cup NonArrays

NextRepeat ==
  \/ Next
  \/ keyBy_again
  \/ groupBy_again

SpecRepeat == InitRepeat /\ [][NextRepeat]_vars

\* A call runs to completion: forEach invokes the callback for the next
\* element until none is left, and the function then returns.  (Arrays up
\* to RepeatLen, one call of each function.)
SpecFair ==
  /\ InitRepeat
  /\ [][Next]_vars
  /\ WF_vars(keyBy_callback) /\ WF_vars(keyBy_return)
  /\ WF_vars(groupBy_callback) /\ WF_vars(groupBy_return)

\* ------------------------------------------------------------------------
\* Vocabulary of the properties
\* ------------------------------------------------------------------------
Absent(v) == v = Null \/ v = Undefined

\* the j-th (item, index) pair of the input
ItemAt(j) == ForEachItem(items, j)
IndexAt(j) == ForEachIndex(items, j)

\* the policy in force in each call
kEn == kb.excludeNullish = Bool(TRUE)
gEn == gb.excludeNullish = Bool(TRUE)

kKey(j) == keyBy_computedKey(ItemAt(j), IndexAt(j))
kVal(j) == keyBy_computedValue(kb.valueTransformer, ItemAt(j), IndexAt(j))
gKey(j) == groupBy_computedKey(ItemAt(j), IndexAt(j))
gVal(j) == groupBy_computedValue(gb.valueTransformer, ItemAt(j), IndexAt(j))

\* item j passes the item gate and the key gate
kAdmitted(j) == ~(kEn /\ Absent(ItemAt(j))) /\ kKey(j).ok /\ ~(kEn /\ Absent(kKey(j).v))
gAdmitted(j) == ~(gEn /\ Absent(ItemAt(j))) /\ gKey(j).ok /\ ~(gEn /\ Absent(gKey(j).v))

KeysOf(m) == {m[j].key : j \in 1..Len(m)}
DistinctKeys(m) == \A a, b \in 1..Len(m) : m[a].key = m[b].key => a = b
Writes(log) == SelectSeq(log, LAMBDA e : e.ev = "write")

RECURSIVE SumLens(_, _)
SumLens(m, n) == IF n = 0 THEN 0 ELSE Len(m[n].val) + SumLens(m, n - 1)

\* the documented call shapes, by the policy they ask for
ValueDescriptors == {Str("name"), Fn("nullForAlice"), Fn("index")}
CallExcludes ==
  \/ arg3 = OptsTrue /\ arg4 = Undefined
  \/ arg3 \in ValueDescriptors \cup {Undefined} /\ arg4 = OptsTrue
CallDefault ==
  \/ arg3 \in ValueDescriptors \cup {Undefined, OptsFalse, OptsEmpty} /\ arg4 = Undefined
  \/ arg3 \in ValueDescriptors \cup {Undefined} /\ arg4 = OptsFalse

IsArray == items.kind = "array"
AllAbsent == \A j \in 1..Len(items.elems) : Absent(items.elems[j])

\* ------------------------------------------------------------------------
\* C1  When keyBy and groupBy have both returned for the same arguments,
\* they hold the same set of keys and keyBy's value under a key is the last
\* element of groupBy's list under that key; one returns iff the other does.
\* ------------------------------------------------------------------------
C1_IndexIsLastOfGroup ==
  /\ (kb.pc \in {"returned", "threw"} /\ gb.pc \in {"returned", "threw"}) => kb.pc = gb.pc
  /\ (kb.pc = "returned" /\ gb.pc = "returned") =>
       /\ KeysOf(kb.result) = KeysOf(gb.result)
       /\ \A a \in 1..Len(kb.result) : \A b \in 1..Len(gb.result) :
            kb.result[a].key = gb.result[b].key =>
              kb.result[a].val = gb.result[b].val[Len(gb.result[b].val)]

C1_Witness ==
  /\ kb.pc = "returned" /\ gb.pc = "returned"
  /\ \E b \in 1..Len(gb.result) :
       /\ Len(gb.result[b].val) >= 2
       /\ gb.result[b].val[1] # gb.result[b].val[Len(gb.result[b].val)]
       /\ \E a \in 1..Len(kb.result) : kb.result[a].key = gb.result[b].key

\* ------------------------------------------------------------------------
\* C2  In every state of a groupBy call, the list under each key is the
\* sequence of computed values of the admitted items visited so far whose
\* computed key is that key, in input order, with repetitions kept; every
\* admitted item's key is present and no key occurs twice.
\* ------------------------------------------------------------------------
RECURSIVE gValuesFor(_, _)
gValuesFor(k, n) ==
  IF n = 0 THEN << >>
  ELSE IF gAdmitted(n) /\ gKey(n).v = k
         THEN Append(gValuesFor(k, n - 1), gVal(n).v)
         ELSE gValuesFor(k, n - 1)

C2_GroupOrderPreserved ==
  /\ DistinctKeys(gb.result)
  /\ \A a \in 1..Len(gb.result) : gb.result[a].val = gValuesFor(gb.result[a].key, gb.i)
  /\ \A j \in 1..gb.i : gAdmitted(j) => gKey(j).v \in KeysOf(gb.result)

C2_Witness ==
  /\ gb.pc = "returned"
  /\ \E a \in 1..Len(gb.result) :
       /\ Len(gb.result[a].val) = 3
       /\ gb.result[a].val[1] = gb.result[a].val[3]
       /\ gb.result[a].val[1] # gb.result[a].val[2]

\* ------------------------------------------------------------------------
\* C3  In every state of a keyBy call (after every prefix of the fold), no
\* key occurs twice, every admitted item's key is present, and the value
\* under a key is the computed value of the admitted item with the greatest
\* input position among the visited items that computed that key.
\* ------------------------------------------------------------------------
kLastFor(k, n) ==
  CHOOSE j \in 1..n :
    /\ kAdmitted(j) /\ kKey(j).v = k
    /\ \A h \in 1..n : (kAdmitted(h) /\ kKey(h).v = k) => h <= j

C3_LastWriteWins ==
  /\ DistinctKeys(kb.result)
  /\ \A j \in 1..kb.i : kAdmitted(j) => kKey(j).v \in KeysOf(kb.result)
  /\ \A a \in 1..Len(kb.result) :
       /\ \E j \in 1..kb.i : kAdmitted(j) /\ kKey(j).v = kb.result[a].key
       /\ kb.result[a].val = kVal(kLastFor(kb.result[a].key, kb.i)).v

C3_Witness ==
  /\ kb.pc = "forEach"
  /\ kb.i < ForEachLen(items)
  /\ \E a, b \in 1..Len(klog) :
       /\ a < b
       /\ klog[a].ev = "write" /\ klog[b].ev = "write"
       /\ klog[a].key = klog[b].key
       /\ klog[a].val # klog[b].val

\* ------------------------------------------------------------------------
\* C4  In a call that passes excludeNullish: true, no state of keyBy or of
\* groupBy has a null or undefined key in the container, and no write is
\* made for an absent item or under an absent key.
\* ------------------------------------------------------------------------
C4_NoAbsentKeyWhenExcluding ==
  CallExcludes =>
    /\ \A a \in 1..Len(kb.result) : ~Absent(kb.result[a].key)
    /\ \A a \in 1..Len(gb.result) : ~Absent(gb.result[a].key)
    /\ \A a \in 1..Len(klog) :
         klog[a].ev = "write" => ~Absent(klog[a].item) /\ ~Absent(klog[a].key)
    /\ \A a \in 1..Len(glog) :
         glog[a].ev = "write" => ~Absent(glog[a].item) /\ ~Absent(glog[a].key)

C4_Witness ==
  /\ CallExcludes
  /\ kb.pc = "returned" /\ gb.pc = "returned"
  /\ Len(kb.result) > 0 /\ Len(gb.result) > 0
  /\ \E j \in 1..ForEachLen(items) : Absent(ItemAt(j))
  /\ \E j \in 1..ForEachLen(items) :
       ~Absent(ItemAt(j)) /\ kKey(j).ok /\ Absent(kKey(j).v)

\* ------------------------------------------------------------------------
\* C5  In a call that passes excludeNullish: true, every visited item that
\* is not absent and whose computed key is not absent is written even when
\* its computed value is null or undefined: groupBy holds that value in the
\* list of the key at the item's rank among the admitted items of that key,
\* and keyBy holds it under the key as long as no later item of that key
\* followed.
\* ------------------------------------------------------------------------
gRank(j) == Cardinality({h \in 1..j : gAdmitted(h) /\ gKey(h).v = gKey(j).v})

C5_AbsentValueRetained ==
  CallExcludes =>
    /\ \A j \in 1..kb.i :
         (~Absent(ItemAt(j)) /\ kKey(j).ok /\ ~Absent(kKey(j).v)
            /\ kVal(j).ok /\ Absent(kVal(j).v)) =>
           /\ \E a \in 1..Len(klog) :
                klog[a] = Ev("write", ItemAt(j), IndexAt(j), kKey(j).v, kVal(j).v)
           /\ \E a \in 1..Len(kb.result) :
                /\ kb.result[a].key = kKey(j).v
                /\ (\A h \in (j + 1)..kb.i :
                      ~(~Absent(ItemAt(h)) /\ kKey(h).ok /\ kKey(h).v = kKey(j).v))
                     => kb.result[a].val = kVal(j).v
    /\ \A j \in 1..gb.i :
         (~Absent(ItemAt(j)) /\ gKey(j).ok /\ ~Absent(gKey(j).v)
            /\ gVal(j).ok /\ Absent(gVal(j).v)) =>
           \E a \in 1..Len(gb.result) :
             /\ gb.result[a].key = gKey(j).v
             /\ Len(gb.result[a].val) >= gRank(j)
             /\ gb.result[a].val[gRank(j)] = gVal(j).v

C5_Witness ==
  /\ CallExcludes
  /\ kb.pc = "returned" /\ gb.pc = "returned"
  /\ \E a \in 1..Len(kb.result) : kb.result[a].val = Null
  /\ \E a \in 1..Len(gb.result) :
       /\ Len(gb.result[a].val) >= 2
       /\ gb.result[a].val[1] = Null
       /\ ~Absent(gb.result[a].val[2])

\* ------------------------------------------------------------------------
\* C6  In a call on an array with excludeNullish omitted, false, or an
\* options object without the field, once the call has returned every
\* element has produced exactly one write under its computed key: the
\* lists of groupBy have the input length in total, and keyBy has made one
\* write per input index.
\* ------------------------------------------------------------------------
C6_DefaultIncludesAll ==
  (CallDefault /\ IsArray) =>
    /\ gb.pc = "returned" =>
         /\ SumLens(gb.result, Len(gb.result)) = Len(items.elems)
         /\ Len(Writes(glog)) = Len(items.elems)
    /\ kb.pc = "returned" =>
         /\ Len(Writes(klog)) = Len(items.elems)
         /\ \A j \in 1..Len(items.elems) :
              Writes(klog)[j] = Ev("write", ItemAt(j), IndexAt(j), kKey(j).v, kVal(j).v)
         /\ \A j \in 1..Len(items.elems) : kKey(j).v \in KeysOf(kb.result)

C6_Witness ==
  /\ CallDefault /\ IsArray
  /\ arg3 = OptsEmpty
  /\ kb.pc = "returned" /\ gb.pc = "returned"
  /\ \E j \in 1..Len(items.elems) : items.elems[j] = Null
  /\ \E j \in 1..Len(items.elems) : items.elems[j] = Undefined
  /\ \E a \in 1..Len(kb.result) : Absent(kb.result[a].key)

\* ------------------------------------------------------------------------
\* C7  While a call runs and when it has returned, the number of writes
\* made so far equals the number of visited items that passed the item gate
\* and the key gate under the policy in force; for groupBy that number is
\* also the total length of the lists.
\* ------------------------------------------------------------------------
C7_AdmissionCount ==
  /\ kb.pc \in {"forEach", "returned"} =>
       Len(Writes(klog)) = Cardinality({j \in 1..kb.i : kAdmitted(j)})
  /\ gb.pc \in {"forEach", "returned"} =>
       /\ Len(Writes(glog)) = Cardinality({j \in 1..gb.i : gAdmitted(j)})
       /\ SumLens(gb.result, Len(gb.result)) = Cardinality({j \in 1..gb.i : gAdmitted(j)})

C7_Witness ==
  /\ kb.pc = "returned" /\ gb.pc = "returned"
  /\ kEn /\ gEn
  /\ Len(Writes(klog)) = 1 /\ Len(Writes(glog)) = 1
  /\ ForEachLen(items) = 3
  /\ \E j \in 1..3 : Absent(ItemAt(j))
  /\ \E j \in 1..3 : ~Absent(ItemAt(j)) /\ ~kAdmitted(j)

\* ------------------------------------------------------------------------
\* C8  Whenever the first argument is not an array (a number, a string, a
\* plain object, a Set, a Map), keyBy and groupBy throw before any item is
\* processed: no callback runs, nothing is written and nothing is returned.
\* ------------------------------------------------------------------------
C8_NonSequenceRejected ==
  ~IsArray =>
    /\ kb.pc \in {"idle", "threw"} /\ kb.i = 0 /\ kb.result = EmptyMap /\ klog = << >>
    /\ gb.pc \in {"idle", "threw"} /\ gb.i = 0 /\ gb.result = EmptyMap /\ glog = << >>

\* ------------------------------------------------------------------------
\* C9  (as claimed) Without any option, keyBy and groupBy skip null and
\* undefined entries: an array of only null/undefined entries yields an
\* empty Map.
\* ------------------------------------------------------------------------
C9_SkipsAbsentWithoutOption ==
  (IsArray /\ AllAbsent /\ arg3 = Undefined /\ arg4 = Undefined) =>
    /\ kb.pc = "returned" => kb.result = EmptyMap
    /\ gb.pc = "returned" => gb.result = EmptyMap

\* C9  (amended) With the option excludeNullish: true, keyBy and groupBy
\* skip null and undefined entries: on an array of only null/undefined
\* entries no callback throws, nothing is written, and the Map returned is
\* empty.
C9_SkipsAbsentWhenExcluding ==
  (IsArray /\ AllAbsent /\ CallExcludes) =>
    /\ kb.pc # "threw" /\ kb.result = EmptyMap /\ klog = << >>
    /\ gb.pc # "threw" /\ gb.result = EmptyMap /\ glog = << >>

C9_Witness ==
  /\ IsArray /\ AllAbsent /\ CallExcludes
  /\ \E j \in 1..Len(items.elems) : items.elems[j] = Null
  /\ \E j \in 1..Len(items.elems) : items.elems[j] = Undefined
  /\ kb.pc = "returned" /\ kb.result = EmptyMap
  /\ gb.pc = "returned" /\ gb.result = EmptyMap

\* ------------------------------------------------------------------------
\* C10  (as claimed) Whenever a fourth argument is supplied, the third
\* argument is the value transformer and the fourth the options object,
\* whatever the third argument is.
\* ------------------------------------------------------------------------
C10_FourthArgIsOptions ==
  arg4 # Undefined =>
    /\ kb.pc # "idle" => (kb.valueTransformer = arg3 /\ kb.opts = arg4)
    /\ gb.pc # "idle" => (gb.valueTransformer = arg3 /\ gb.opts = arg4)

\* a third argument that is a non-null object without a `call` property
PlainObjectArg3 == arg3 \in {OptsTrue, OptsFalse, OptsEmpty}

\* C10  (amended) Whenever a fourth argument (an options object) is
\* supplied and the third argument is not a non-null object lacking a
\* `call` property, the third argument is the value transformer and the
\* fourth the options object, whose excludeNullish sets the policy; a third
\* argument that is such an object is itself the options object, and the
\* fourth argument is ignored.
C10_FourthArgIsOptionsUnlessThirdIs ==
  arg4 # Undefined =>
    /\ (kb.pc # "idle" /\ ~PlainObjectArg3) =>
         /\ kb.valueTransformer = arg3 /\ kb.opts = arg4
         /\ kb.excludeNullish = Heap[arg4.n].excludeNullish
    /\ (gb.pc # "idle" /\ ~PlainObjectArg3) =>
         /\ gb.valueTransformer = arg3 /\ gb.opts = arg4
         /\ gb.excludeNullish = Heap[arg4.n].excludeNullish
    /\ (kb.pc # "idle" /\ PlainObjectArg3) =>
         (kb.valueTransformer = Undefined /\ kb.opts = arg3)
    /\ (gb.pc # "idle" /\ PlainObjectArg3) =>
         (gb.valueTransformer = Undefined /\ gb.opts = arg3)

C10_Witness ==
  /\ arg4 = OptsTrue /\ arg3 = Str("name")
  /\ kb.pc = "returned" /\ gb.pc = "returned"
  /\ \E j \in 1..ForEachLen(items) : Absent(ItemAt(j))
  /\ \E a \in 1..Len(kb.result) : kb.result[a].val = Str("Alice")
  /\ \E a \in 1..Len(gb.result) : gb.result[a].val[1] = Str("Alice")

\* ------------------------------------------------------------------------
\* C11  In a three-argument call, every third argument that is a
\* non-callable object is the options object (its excludeNullish field sets
\* the policy) and there is no value transformer, whatever other properties
\* the object has.
\* ------------------------------------------------------------------------
ObjectArg3 == arg3 \in {OptsTrue, OptsFalse, OptsEmpty, CallObj}

\* the policy an options object asks for
AsksToExclude(o) ==
  "excludeNullish" \in DOMAIN Heap[o.n] /\ Heap[o.n].excludeNullish = Bool(TRUE)

C11_ObjectThirdArgIsOptions ==
  (arg4 = Undefined /\ ObjectArg3) =>
    /\ kb.pc # "idle" =>
         /\ kb.opts = arg3 /\ kb.valueTransformer = Undefined
         /\ kEn = AsksToExclude(arg3)
    /\ gb.pc # "idle" =>
         /\ gb.opts = arg3 /\ gb.valueTransformer = Undefined
         /\ gEn = AsksToExclude(arg3)

\* ------------------------------------------------------------------------
\* C12  In a three-argument call whose third argument is a function or a
\* field name, that argument is the value transformer: every value written
\* is what it yields for the item, and the policy is the default (nothing
\* is skipped, so a call that returns has made one write per element).
\* ------------------------------------------------------------------------
\* what a value descriptor yields for (item, index)
Described(dsc, item, index) ==
  IF dsc.t = "function" THEN Apply(dsc, item, index).v
  ELSE IF Absent(item) THEN Undefined
  ELSE GetProp(item, dsc)

WritesUse(log, dsc) ==
  \A a \in 1..Len(log) :
    log[a].ev = "write" => log[a].val = Described(dsc, log[a].item, log[a].index)

C12_ThirdArgIsValueDescriptor ==
  (arg4 = Undefined /\ arg3 \in ValueDescriptors) =>
    /\ kb.pc # "idle" =>
         /\ kb.valueTransformer = arg3 /\ kb.excludeNullish = Bool(FALSE)
         /\ WritesUse(klog, arg3)
         /\ kb.pc = "returned" => Len(Writes(klog)) = ForEachLen(items)
    /\ gb.pc # "idle" =>
         /\ gb.valueTransformer = arg3 /\ gb.excludeNullish = Bool(FALSE)
         /\ WritesUse(glog, arg3)
         /\ gb.pc = "returned" => Len(Writes(glog)) = ForEachLen(items)

C12_Witness ==
  /\ arg4 = Undefined /\ arg3 = Str("name")
  /\ IsArray
  /\ kb.pc = "returned" /\ gb.pc = "returned"
  /\ \E j \in 1..Len(items.elems) : Absent(items.elems[j])
  /\ \E a \in 1..Len(kb.result) : kb.result[a].val = Str("Charlie")
  /\ \E a \in 1..Len(kb.result) : kb.result[a].val = Undefined
  /\ \E a \in 1..Len(gb.result) : gb.result[a].val = <<Str("Alice"), Str("Charlie")>>

\* ------------------------------------------------------------------------
\* C13  In the call shapes (items, key) and (items, key, options) the value
\* written for each admitted item is the item itself: every write stores
\* its item, every value of keyBy and every list element of groupBy is an
\* element of the input filed under its own computed key.
\* ------------------------------------------------------------------------
NoValueDescriptor ==
  arg4 = Undefined /\ arg3 \in {Undefined, OptsTrue, OptsFalse, OptsEmpty}

C13_IdentityValue ==
  NoValueDescriptor =>
    /\ \A a \in 1..Len(klog) : klog[a].ev = "write" => klog[a].val = klog[a].item
    /\ \A a \in 1..Len(glog) : glog[a].ev = "write" => glog[a].val = glog[a].item
    /\ \A a \in 1..Len(kb.result) :
         \E j \in 1..kb.i :
           /\ kb.result[a].val = ItemAt(j)
           /\ kKey(j).ok /\ kKey(j).v = kb.result[a].key
    /\ \A a \in 1..Len(gb.result) : \A h \in 1..Len(gb.result[a].val) :
         \E j \in 1..gb.i :
           /\ gb.result[a].val[h] = ItemAt(j)
           /\ gKey(j).ok /\ gKey(j).v = gb.result[a].key

C13_Witness ==
  /\ NoValueDescriptor
  /\ arg3 = OptsTrue
  /\ kb.pc = "returned" /\ gb.pc = "returned"
  /\ \E a \in 1..Len(kb.result) : kb.result[a].val = First
  /\ \E a \in 1..Len(gb.result) : gb.result[a].val = <<Alice, First>>

\* ------------------------------------------------------------------------
\* C14  No step of keyBy or groupBy changes the input: the array has the
\* same length and the same element at every index after any step of any
\* call, whatever the call shape and the policy.
\* ------------------------------------------------------------------------
C14_InputNotMutated == [][items' = items]_vars

C14_Witness ==
  /\ IsArray /\ Len(items.elems) >= 2
  /\ kb.pc = "returned" /\ gb.pc = "returned"
  /\ Len(Writes(klog)) >= 1 /\ Len(Writes(glog)) >= 1
  /\ Len(Writes(klog)) < Len(items.elems)

\* ------------------------------------------------------------------------
\* C15  In both functions the keys of the container are, in order, the
\* keys written so far in order of first write; a step only ever appends a
\* new key, so a later write under an existing key moves no key.
\* ------------------------------------------------------------------------
RECURSIVE FirstKeys(_, _)
FirstKeys(log, n) ==
  IF n = 0 THEN << >>
  ELSE LET before == FirstKeys(log, n - 1)
       IN IF log[n].ev = "write" /\ ~(\E a \in 1..Len(before) : before[a] = log[n].key)
            THEN Append(before, log[n].key)
            ELSE before

IsPrefix(p, q) == Len(p) <= Len(q) /\ \A a \in 1..Len(p) : p[a] = q[a]

C15_KeyOrderIsFirstWriteOrder ==
  /\ [](/\ MapKeys(kb.result) = FirstKeys(klog, Len(klog))
        /\ MapKeys(gb.result) = FirstKeys(glog, Len(glog)))
  /\ [][/\ IsPrefix(MapKeys(kb.result), MapKeys(kb.result'))
        /\ IsPrefix(MapKeys(gb.result), MapKeys(gb.result'))]_vars

C15_Witness ==
  /\ kb.pc = "returned" /\ gb.pc = "returned"
  /\ Len(kb.result) >= 2 /\ Len(gb.result) >= 2
  /\ Len(gb.result[1].val) >= 2
  /\ \E a, b, c \in 1..Len(klog) :
       /\ a < b /\ b < c
       /\ klog[a].ev = "write" /\ klog[b].ev = "write" /\ klog[c].ev = "write"
       /\ klog[a].key = kb.result[1].key
       /\ klog[b].key = kb.result[2].key
       /\ klog[c].key = kb.result[1].key

\* ------------------------------------------------------------------------
\* C16  Under the default policy the keys of the container are exactly the
\* computed keys of the visited items, each in one slot; a computed key null
\* and a computed key undefined are two entries, and the groupBy list of
\* each holds only the values of the items that computed that very key.
\* ------------------------------------------------------------------------
C16_KeysStoredAsComputed ==
  CallDefault =>
    /\ DistinctKeys(kb.result) /\ DistinctKeys(gb.result)
    /\ KeysOf(kb.result) = {kKey(j).v : j \in 1..kb.i}
    /\ KeysOf(gb.result) = {gKey(j).v : j \in 1..gb.i}
    /\ \A a \in 1..Len(gb.result) :
         Len(gb.result[a].val) =
           Cardinality({j \in 1..gb.i : gKey(j).v = gb.result[a].key})

C16_Witness ==
  /\ CallDefault
  /\ kb.pc = "returned" /\ gb.pc = "returned"
  /\ \E a, b \in 1..Len(kb.result) :
       kb.result[a].key = Null /\ kb.result[b].key = Undefined
  /\ \E a, b \in 1..Len(gb.result) :
       /\ gb.result[a].key = Null /\ gb.result[b].key = Undefined
       /\ Len(gb.result[a].val) = 1 /\ Len(gb.result[b].val) = 2

\* ------------------------------------------------------------------------
\* C17  With a field name as key descriptor and no function as value
\* descriptor, keyBy and groupBy never throw on an array, whatever absent
\* items it has and under either policy; under the default policy an absent
\* item is written under the key undefined, with the value undefined when
\* the value descriptor is a field name.
\* ------------------------------------------------------------------------
FieldNamesOnly == arg2.t = "string" /\ arg3.t # "function"

AbsentItemWrite(j, vt) ==
  Ev("write", ItemAt(j), IndexAt(j), Undefined,
     IF vt.t = "string" THEN Undefined ELSE ItemAt(j))

C17_FieldNameOnAbsentItem ==
  (IsArray /\ FieldNamesOnly) =>
    /\ kb.pc # "threw" /\ gb.pc # "threw"
    /\ CallDefault =>
         /\ \A j \in 1..kb.i : Absent(ItemAt(j)) =>
              \E a \in 1..Len(klog) : klog[a] = AbsentItemWrite(j, kb.valueTransformer)
         /\ \A j \in 1..gb.i : Absent(ItemAt(j)) =>
              \E a \in 1..Len(glog) : glog[a] = AbsentItemWrite(j, gb.valueTransformer)

C17_Witness ==
  /\ IsArray /\ arg2 = Str("id") /\ arg3 = Str("name") /\ arg4 = Undefined
  /\ kb.pc = "returned" /\ gb.pc = "returned"
  /\ \E j \in 1..Len(items.elems) : items.elems[j] = Null
  /\ \E j \in 1..Len(items.elems) : items.elems[j] = Undefined
  /\ \E a \in 1..Len(kb.result) :
       kb.result[a].key = Undefined /\ kb.result[a].val = Undefined
  /\ \E a \in 1..Len(gb.result) :
       gb.result[a].key = Undefined /\ gb.result[a].val = <<Undefined, Undefined>>

\* ------------------------------------------------------------------------
\* C18  On an array, the calls of the key function are, in order, the
\* calls (element, position) for the elements that pass the item gate, and
\* the calls of the value function those for the elements that pass both
\* gates: the position is the one in the input, skipped elements counted,
\* and under the default policy absent elements are passed as they are.
\* ------------------------------------------------------------------------
Calls(log, which) ==
  LET sel == SelectSeq(log, LAMBDA e : e.ev = which)
  IN [a \in 1..Len(sel) |-> <<sel[a].item, sel[a].index>>]

\* number of elements whose callback has started
kStarted == IF kb.pc = "threw" /\ HasForEach(items) THEN kb.i + 1 ELSE kb.i
gStarted == IF gb.pc = "threw" /\ HasForEach(items) THEN gb.i + 1 ELSE gb.i

RECURSIVE kKeyCalls(_)
kKeyCalls(n) ==
  IF n = 0 THEN << >>
  ELSE IF arg2.t = "function" /\ ~(kEn /\ Absent(items.elems[n]))
         THEN Append(kKeyCalls(n - 1), <<items.elems[n], Num(n - 1)>>)
         ELSE kKeyCalls(n - 1)

RECURSIVE kValueCalls(_)
kValueCalls(n) ==
  IF n = 0 THEN << >>
  ELSE IF kb.valueTransformer.t = "function" /\ kAdmitted(n)
         THEN Append(kValueCalls(n - 1), <<items.elems[n], Num(n - 1)>>)
         ELSE kValueCalls(n - 1)

RECURSIVE gKeyCalls(_)
gKeyCalls(n) ==
  IF n = 0 THEN << >>
  ELSE IF arg2.t = "function" /\ ~(gEn /\ Absent(items.elems[n]))
         THEN Append(gKeyCalls(n - 1), <<items.elems[n], Num(n - 1)>>)
         ELSE gKeyCalls(n - 1)

RECURSIVE gValueCalls(_)
gValueCalls(n) ==
  IF n = 0 THEN << >>
  ELSE IF gb.valueTransformer.t = "function" /\ gAdmitted(n)
         THEN Append(gValueCalls(n - 1), <<items.elems[n], Num(n - 1)>>)
         ELSE gValueCalls(n - 1)

C18_CallbackGetsRawItemAndIndex ==
  IsArray =>
    /\ Calls(klog, "key") = kKeyCalls(kStarted)
    /\ Calls(klog, "value") = kValueCalls(kStarted)
    /\ Calls(glog, "key") = gKeyCalls(gStarted)
    /\ Calls(glog, "value") = gValueCalls(gStarted)

C18_Witness ==
  /\ IsArray /\ Len(items.elems) = 3
  /\ Absent(items.elems[1]) /\ ~Absent(items.elems[2]) /\ Absent(items.elems[3])
  /\ arg2 = Fn("index") /\ arg3 = Fn("index") /\ arg4 = OptsTrue
  /\ kb.pc = "returned" /\ gb.pc = "returned"
  /\ Calls(klog, "key") = <<<<items.elems[2], Num(1)>>>>
  /\ Calls(glog, "value") = <<<<items.elems[2], Num(1)>>>>
  /\ kb.result = <<[key |-> Num(1), val |-> Num(1)]>>

\* ------------------------------------------------------------------------
\* C19  (as claimed) A call that fails has failed before the first write:
\* no call throws after a (key, value) pair was written.
\* ------------------------------------------------------------------------
C19_FailsOnlyBeforeFirstWrite ==
  /\ kb.pc = "threw" => (Writes(klog) = << >> /\ kb.result = EmptyMap)
  /\ gb.pc = "threw" => (Writes(glog) = << >> /\ gb.result = EmptyMap)

\* the key function or the value function faults on element j
kFaultAt(j) ==
  \/ arg2.t = "function" /\ ~kKey(j).ok
  \/ kAdmitted(j) /\ kb.valueTransformer.t = "function" /\ ~kVal(j).ok
gFaultAt(j) ==
  \/ arg2.t = "function" /\ ~gKey(j).ok
  \/ gAdmitted(j) /\ gb.valueTransformer.t = "function" /\ ~gVal(j).ok

\* C19  (amended) A call either runs to completion and returns the
\* container, or throws and returns none.  It throws without having
\* started the loop when the first argument has no forEach method;
\* otherwise it throws exactly at the first element that passes the item
\* gate and on which the key or the value function faults.  At that point
\* the admitted elements before it, and only they, have been written: the
\* call fails with nothing written exactly when the first argument has no
\* forEach method or no admitted element precedes the faulting one, and
\* with a non-empty container otherwise.  A call that is still running or
\* has returned met no such element, and a call returns only after the
\* last element.
kFailsUnwritten == ~HasForEach(items) \/ \A j \in 1..kb.i : ~kAdmitted(j)
gFailsUnwritten == ~HasForEach(items) \/ \A j \in 1..gb.i : ~gAdmitted(j)

C19_FailsAtFirstFault ==
  /\ kb.pc = "threw" =>
       /\ IF ~HasForEach(items)
            THEN klog = << >> /\ kb.i = 0
            ELSE /\ kb.i < ForEachLen(items)
                 /\ ~(kEn /\ Absent(ItemAt(kb.i + 1))) /\ kFaultAt(kb.i + 1)
                 /\ \A j \in 1..kb.i : ~(kEn /\ Absent(ItemAt(j))) => ~kFaultAt(j)
                 /\ Len(Writes(klog)) = Cardinality({j \in 1..kb.i : kAdmitted(j)})
       /\ (Writes(klog) = << >> /\ kb.result = EmptyMap) <=> kFailsUnwritten
       /\ (Writes(klog) # << >> /\ kb.result # EmptyMap) <=> ~kFailsUnwritten
       /\ kret = <<ThrownCall>>
  /\ gb.pc = "threw" =>
       /\ IF ~HasForEach(items)
            THEN glog = << >> /\ gb.i = 0
            ELSE /\ gb.i < ForEachLen(items)
                 /\ ~(gEn /\ Absent(ItemAt(gb.i + 1))) /\ gFaultAt(gb.i + 1)
                 /\ \A j \in 1..gb.i : ~(gEn /\ Absent(ItemAt(j))) => ~gFaultAt(j)
                 /\ Len(Writes(glog)) = Cardinality({j \in 1..gb.i : gAdmitted(j)})
       /\ (Writes(glog) = << >> /\ gb.result = EmptyMap) <=> gFailsUnwritten
       /\ (Writes(glog) # << >> /\ gb.result # EmptyMap) <=> ~gFailsUnwritten
       /\ gret = <<ThrownCall>>
  /\ kb.pc \in {"forEach", "returned"} =>
       \A j \in 1..kb.i : ~(kEn /\ Absent(ItemAt(j))) => ~kFaultAt(j)
  /\ gb.pc \in {"forEach", "returned"} =>
       \A j \in 1..gb.i : ~(gEn /\ Absent(ItemAt(j))) => ~gFaultAt(j)
  /\ kb.pc = "returned" => kb.i = ForEachLen(items) /\ kret = <<ReturnedCall(kb.result)>>
  /\ gb.pc = "returned" => gb.i = ForEachLen(items) /\ gret = <<ReturnedCall(gb.result)>>

C19_Witness ==
  /\ IsArray /\ CallDefault
  /\ kb.pc = "threw" /\ gb.pc = "threw"
  /\ Len(Writes(klog)) >= 1 /\ Len(kb.result) >= 1
  /\ Len(Writes(glog)) >= 1 /\ Len(gb.result) >= 1
  /\ Absent(ItemAt(kb.i + 1))

\* ------------------------------------------------------------------------
\* C20  Calls with the same arguments end the same way: all calls of keyBy
\* in a run return Maps with equal keys, key order and values (or all
\* throw), and likewise all calls of groupBy.  Every call starts from an
\* empty Map of its own, so what an earlier call wrote is not in it.
\* ------------------------------------------------------------------------
C20_Deterministic ==
  /\ \A a, b \in 1..Len(kret) : kret[a] = kret[b]
  /\ \A a, b \in 1..Len(gret) : gret[a] = gret[b]
  /\ (kb.pc = "forEach" /\ kb.i = 0) => kb.result = EmptyMap
  /\ (gb.pc = "forEach" /\ gb.i = 0) => gb.result = EmptyMap
  /\ kb.pc \in {"forEach", "returned"} => Len(Writes(klog)) >= Len(kb.result)
  /\ gb.pc \in {"forEach", "returned"} =>
       Len(Writes(glog)) = SumLens(gb.result, Len(gb.result))

C20_Witness ==
  /\ Len(kret) = 2 /\ Len(gret) = 2
  /\ kret[1].ok /\ kret[2].ok /\ gret[1].ok /\ gret[2].ok
  /\ Len(kret[2].map) >= 1
  /\ kret[2] = kret[1] /\ gret[2] = gret[1]
  /\ \E a \in 1..Len(gret[2].map) : Len(gret[2].map[a].val) = 2

\* ------------------------------------------------------------------------
\* C21  On an array, with key and value descriptors that do not read the
\* index, for every split of the input into a prefix A and a suffix B the
\* result of the whole is the ordered merge of the results of the parts:
\* groupBy(A ++ B) has under each key the list of groupBy(A) followed by the
\* list of groupBy(B), keyBy(A ++ B) has under each key the value of
\* keyBy(B) when B has the key and that of keyBy(A) otherwise, and the keys
\* of A come before the keys only B has.  (C21_Witness is an input on which
\* the merge in the opposite order differs from the whole.)
\* ------------------------------------------------------------------------
Arr(q) == [kind |-> "array", elems |-> q]
PrefixOf(c) == Arr(SubSeq(items.elems, 1, c))
SuffixOf(c) == Arr(SubSeq(items.elems, c + 1, Len(items.elems)))
IndexFree == arg2 # Fn("index") /\ arg3 # Fn("index")

ValueUnder(m, k) == m[CHOOSE j \in 1..Len(m) : m[j].key = k].val

MergeIndex(ma, mb) ==
  [j \in 1..Len(ma) |->
     [key |-> ma[j].key,
      val |-> IF ma[j].key \in KeysOf(mb) THEN ValueUnder(mb, ma[j].key) ELSE ma[j].val]]
  \o SelectSeq(mb, LAMBDA e : e.key \notin KeysOf(ma))

MergeGroups(ma, mb) ==
  [j \in 1..Len(ma) |->
     [key |-> ma[j].key,
      val |-> ma[j].val \o (IF ma[j].key \in KeysOf(mb)
                              THEN ValueUnder(mb, ma[j].key) ELSE << >>)]]
  \o SelectSeq(mb, LAMBDA e : e.key \notin KeysOf(ma))

C21_SplitAndMerge ==
  /\ \A a \in 1..Len(kret) : kret[a] = keyBy_call(items, arg3, arg4)
  /\ \A a \in 1..Len(gret) : gret[a] = groupBy_call(items, arg3, arg4)
  /\ (IsArray /\ IndexFree /\ kb.pc = "returned") =>
       \A c \in 0..Len(items.elems) :
         LET a == keyBy_call(PrefixOf(c), arg3, arg4)
             b == keyBy_call(SuffixOf(c), arg3, arg4)
         IN a.ok /\ b.ok /\ kb.result = MergeIndex(a.map, b.map)
  /\ (IsArray /\ IndexFree /\ gb.pc = "returned") =>
       \A c \in 0..Len(items.elems) :
         LET a == groupBy_call(PrefixOf(c), arg3, arg4)
             b == groupBy_call(SuffixOf(c), arg3, arg4)
         IN a.ok /\ b.ok /\ gb.result = MergeGroups(a.map, b.map)

C21_Witness ==
  /\ IsArray /\ IndexFree
  /\ kb.pc = "returned" /\ gb.pc = "returned"
  /\ \E c \in 1..(Len(items.elems) - 1) :
       LET ka == keyBy_call(PrefixOf(c), arg3, arg4).map
           kc == keyBy_call(SuffixOf(c), arg3, arg4).map
           ga == groupBy_call(PrefixOf(c), arg3, arg4).map
           gc == groupBy_call(SuffixOf(c), arg3, arg4).map
       IN /\ \E k \in KeysOf(ka) \cap KeysOf(kc) :
               /\ ValueUnder(ka, k) # ValueUnder(kc, k)
               /\ ValueUnder(kb.result, k) = ValueUnder(kc, k)
               /\ ValueUnder(MergeIndex(kc, ka), k) # ValueUnder(kb.result, k)
          /\ \E k \in KeysOf(ga) \cap KeysOf(gc) :
               ValueUnder(MergeGroups(gc, ga), k) # ValueUnder(gb.result, k)
          /\ Len(kb.result) >= 2

\* ------------------------------------------------------------------------
\* C22  On an array, the calls and writes of a fold are ordered by input
\* position and, for one element, as key call, value call, write, each at
\* most once.  The key function is called once for every started element
\* that passes the item gate and for no other; the value function once for
\* every element that passes both gates and for no other; a write is made
\* once for every element that passes both gates and whose value function
\* returned.  So with excludeNullish true no call is made for an absent
\* element and no value call for an element whose key is absent.
\* ------------------------------------------------------------------------
EvRank(ev) == CASE ev = "key" -> 1 [] ev = "value" -> 2 [] OTHER -> 3

OrderedLog(log) ==
  \A a, b \in 1..Len(log) :
    a < b => \/ log[a].index.n < log[b].index.n
             \/ /\ log[a].index.n = log[b].index.n
                /\ EvRank(log[a].ev) < EvRank(log[b].ev)

EventsAt(log, which, j) ==
  Cardinality({a \in 1..Len(log) : log[a].ev = which /\ log[a].index = Num(j - 1)})

C22_StepOrder ==
  IsArray =>
    /\ OrderedLog(klog) /\ OrderedLog(glog)
    /\ \A a \in 1..Len(klog) : klog[a].index.n < kStarted
    /\ \A a \in 1..Len(glog) : glog[a].index.n < gStarted
    /\ \A j \in 1..kStarted :
         /\ EventsAt(klog, "key", j) =
              (IF arg2.t = "function" /\ ~(kEn /\ Absent(items.elems[j])) THEN 1 ELSE 0)
         /\ EventsAt(klog, "value", j) =
              (IF kb.valueTransformer.t = "function" /\ kAdmitted(j) THEN 1 ELSE 0)
         /\ EventsAt(klog, "write", j) = (IF kAdmitted(j) /\ kVal(j).ok THEN 1 ELSE 0)
    /\ \A j \in 1..gStarted :
         /\ EventsAt(glog, "key", j) =
              (IF arg2.t = "function" /\ ~(gEn /\ Absent(items.elems[j])) THEN 1 ELSE 0)
         /\ EventsAt(glog, "value", j) =
              (IF gb.valueTransformer.t = "function" /\ gAdmitted(j) THEN 1 ELSE 0)
         /\ EventsAt(glog, "write", j) = (IF gAdmitted(j) /\ gVal(j).ok THEN 1 ELSE 0)
    /\ kEn => \A a \in 1..Len(klog) :
                /\ ~Absent(klog[a].item)
                /\ klog[a].ev \in {"value", "write"} => ~Absent(kKey(klog[a].index.n + 1).v)
    /\ gEn => \A a \in 1..Len(glog) :
                /\ ~Absent(glog[a].item)
                /\ glog[a].ev \in {"value", "write"} => ~Absent(gKey(glog[a].index.n + 1).v)

C22_Witness ==
  /\ IsArray /\ Len(items.elems) = 3
  /\ kEn /\ gEn
  /\ arg2 = Fn("groupOrUnknown") /\ kb.valueTransformer = Fn("nullForAlice")
  /\ ~Absent(items.elems[1]) /\ Absent(items.elems[2]) /\ ~Absent(items.elems[3])
  /\ kb.pc = "returned" /\ gb.pc = "returned"
  /\ [a \in 1..Len(klog) |-> <<klog[a].ev, klog[a].index.n>>] =
       << <<"key", 0>>, <<"value", 0>>, <<"write", 0>>,
          <<"key", 2>>, <<"value", 2>>, <<"write", 2>> >>
  /\ Len(glog) = 6

\* ------------------------------------------------------------------------
\* C23  A fold is one pass: each step of a call either visits the element
\* at the next position (the count of visited elements grows by one and
\* whatever is logged is logged for that position) or ends the call; the
\* call returns only when every position has been visited, with the
\* container as it then is, and a call that has ended takes no further
\* step.  On an array whose callbacks return, a call that has entered
\* forEach does reach the returned state, having visited n elements.
\* ------------------------------------------------------------------------
OnePassStep(f, g, log, logAfter) ==
  /\ g.i \in {f.i, f.i + 1}
  /\ f.pc \in {"returned", "threw"} => g = f
  /\ (f.pc = "forEach" /\ g.pc = "returned") =>
       f.i = ForEachLen(items) /\ g.i = f.i /\ g.result = f.result
  /\ (f.pc = "forEach" /\ g.pc = "forEach" /\ g # f) => g.i = f.i + 1
  /\ \A a \in (Len(log) + 1)..Len(logAfter) :
       logAfter[a].index = ForEachIndex(items, f.i + 1)
  /\ Len(logAfter) >= Len(log)

kNoFault == \A j \in 1..ForEachLen(items) : ~(kEn /\ Absent(ItemAt(j))) => ~kFaultAt(j)
gNoFault == \A j \in 1..ForEachLen(items) : ~(gEn /\ Absent(ItemAt(j))) => ~gFaultAt(j)

C23_SinglePass ==
  /\ [][OnePassStep(kb, kb', klog, klog') /\ OnePassStep(gb, gb', glog, glog')]_vars
  /\ (IsArray /\ kb.pc = "forEach" /\ kNoFault) ~>
       (kb.pc = "returned" /\ kb.i = Len(items.elems) /\ kret = <<ReturnedCall(kb.result)>>)
  /\ (IsArray /\ gb.pc = "forEach" /\ gNoFault) ~>
       (gb.pc = "returned" /\ gb.i = Len(items.elems) /\ gret = <<ReturnedCall(gb.result)>>)

C23_Witness ==
  /\ IsArray /\ Len(items.elems) = 2
  /\ kb.pc = "returned" /\ gb.pc = "returned"
  /\ kb.i = 2 /\ gb.i = 2
  /\ [a \in 1..Len(klog) |-> klog[a].index] = <<Num(0), Num(1)>>
  /\ [a \in 1..Len(glog) |-> glog[a].index] = <<Num(0), Num(1)>>

\* ------------------------------------------------------------------------
\* C24  In every state of a groupBy call and in its result, every list in
\* the container has at least one element, and every key of the container
\* is the computed key of an admitted element visited so far.
\* ------------------------------------------------------------------------
C24_NoEmptyGroup ==
  \A a \in 1..Len(gb.result) :
    /\ Len(gb.result[a].val) >= 1
    /\ \E j \in 1..gb.i : gAdmitted(j) /\ gKey(j).v = gb.result[a].key

C24_Witness ==
  /\ gb.pc = "forEach" /\ gEn
  /\ gb.i < ForEachLen(items)
  /\ Len(gb.result) = 1 /\ Len(gb.result[1].val) = 1
  /\ \E j \in 1..gb.i : ~Absent(ItemAt(j)) /\ ~gAdmitted(j)

\* ------------------------------------------------------------------------
\* C25  In every state the keys of keyBy's container, in iteration order,
\* are the distinct computed keys of the admitted elements visited so far
\* in order of first occurrence, and so are the keys of groupBy's; hence
\* when both calls have returned for the same arguments they iterate the
\* same keys in the same order, with as many entries, and never more
\* entries than admitted elements.
\* ------------------------------------------------------------------------
KeySeq(m) == [a \in 1..Len(m) |-> m[a].key]
InSeq(q, x) == \E a \in 1..Len(q) : q[a] = x

RECURSIVE kInputKeys(_)
kInputKeys(n) ==
  IF n = 0 THEN << >>
  ELSE IF kAdmitted(n) /\ ~InSeq(kInputKeys(n - 1), kKey(n).v)
         THEN Append(kInputKeys(n - 1), kKey(n).v)
         ELSE kInputKeys(n - 1)

RECURSIVE gInputKeys(_)
gInputKeys(n) ==
  IF n = 0 THEN << >>
  ELSE IF gAdmitted(n) /\ ~InSeq(gInputKeys(n - 1), gKey(n).v)
         THEN Append(gInputKeys(n - 1), gKey(n).v)
         ELSE gInputKeys(n - 1)

C25_SameKeySequence ==
  /\ KeySeq(kb.result) = kInputKeys(kb.i)
  /\ KeySeq(gb.result) = gInputKeys(gb.i)
  /\ Len(kb.result) <= Cardinality({j \in 1..kb.i : kAdmitted(j)})
  /\ Len(gb.result) <= Cardinality({j \in 1..gb.i : gAdmitted(j)})
  /\ (kb.pc = "returned" /\ gb.pc = "returned") =>
       /\ KeySeq(kb.result) = KeySeq(gb.result)
       /\ Len(kb.result) = Len(gb.result)

C25_Witness ==
  /\ kb.pc = "returned" /\ gb.pc = "returned"
  /\ ForEachLen(items) = 3
  /\ kAdmitted(1) /\ kAdmitted(2) /\ kAdmitted(3)
  /\ kKey(1).v = kKey(3).v /\ kKey(1).v # kKey(2).v
  /\ KeySeq(kb.result) = <<kKey(1).v, kKey(2).v>>
  /\ KeySeq(gb.result) = <<kKey(1).v, kKey(2).v>>

\* ------------------------------------------------------------------------
\* C26  When no element of the input is null or undefined and no element's
\* computed key is, the call ends the same way whatever the policy: the
\* outcome of the call made equals the outcome of the call with the same
\* key and value descriptors and excludeNullish true, false or omitted, in
\* every position the options may take.
\* ------------------------------------------------------------------------
NothingAbsent ==
  \A j \in 1..ForEachLen(items) :
    ~Absent(ItemAt(j)) /\ kKey(j).ok /\ ~Absent(kKey(j).v)

\* the (third, fourth) arguments that pass value descriptor v with any policy
PolicyVariants(v) ==
  {<<v, Undefined>>, <<v, OptsFalse>>, <<v, OptsEmpty>>, <<v, OptsTrue>>}
  \cup (IF v = Undefined
          THEN {<<OptsTrue, Undefined>>, <<OptsFalse, Undefined>>, <<OptsEmpty, Undefined>>}
          ELSE {})

C26_PolicyIrrelevantWithoutAbsent ==
  /\ (NothingAbsent /\ kb.pc \in {"returned", "threw"}) =>
       \A w \in PolicyVariants(kb.valueTransformer) :
         kret[1] = keyBy_call(items, w[1], w[2])
  /\ (NothingAbsent /\ gb.pc \in {"returned", "threw"}) =>
       \A w \in PolicyVariants(gb.valueTransformer) :
         gret[1] = groupBy_call(items, w[1], w[2])

C26_Witness ==
  /\ NothingAbsent /\ ForEachLen(items) = 3
  /\ kEn /\ gEn
  /\ kb.pc = "returned" /\ gb.pc = "returned"
  /\ Len(kb.result) >= 2
  /\ \E a \in 1..Len(kb.result) : Absent(kb.result[a].val)
  /\ kret[1] = keyBy_call(items, kb.valueTransformer, OptsFalse)
  /\ gret[1] = groupBy_call(items, gb.valueTransformer, Undefined)

\* ------------------------------------------------------------------------
\* C27  On an array, with key and value descriptors that do not read the
\* index, a call with excludeNullish true ends as the call under the
\* default policy does on the input without its null and undefined
\* elements and without the elements whose computed key is null or
\* undefined: same keys, same key order, same values.
\* ------------------------------------------------------------------------
KeptElement(x) ==
  /\ ~Absent(x)
  /\ keyBy_computedKey(x, Num(0)).ok
  /\ ~Absent(keyBy_computedKey(x, Num(0)).v)

Filtered == Arr(SelectSeq(items.elems, KeptElement))

C27_ExcludeIsFilterThenDefault ==
  /\ (IsArray /\ IndexFree /\ kEn /\ kb.pc \in {"returned", "threw"}) =>
       /\ kret[1] = keyBy_call(Filtered, kb.valueTransformer, Undefined)
       /\ kret[1] = keyBy_call(Filtered, kb.valueTransformer, OptsFalse)
  /\ (IsArray /\ IndexFree /\ gEn /\ gb.pc \in {"returned", "threw"}) =>
       /\ gret[1] = groupBy_call(Filtered, gb.valueTransformer, Undefined)
       /\ gret[1] = groupBy_call(Filtered, gb.valueTransformer, OptsFalse)

C27_Witness ==
  /\ IsArray /\ IndexFree /\ kEn /\ gEn
  /\ kb.pc = "returned" /\ gb.pc = "returned"
  /\ Len(items.elems) = 3 /\ Len(Filtered.elems) = 1
  /\ \E j \in 1..3 : Absent(items.elems[j])
  /\ \E j \in 1..3 : ~Absent(items.elems[j]) /\ ~KeptElement(items.elems[j])
  /\ Len(kb.result) = 1 /\ Len(gb.result) = 1
  /\ kb.result # keyBy_call(items, kb.valueTransformer, Undefined).map

\* ------------------------------------------------------------------------
\* C28  In a call with excludeNullish true and no value descriptor, in
\* every state every value of keyBy's container and every element of every
\* list of groupBy's container is an element of the input that is neither
\* null nor undefined.
\* ------------------------------------------------------------------------
InputElement(v) == \E j \in 1..ForEachLen(items) : ItemAt(j) = v

C28_NoAbsentValueWhenExcluding ==
  /\ (kEn /\ Absent(kb.valueTransformer)) =>
       \A a \in 1..Len(kb.result) :
         ~Absent(kb.result[a].val) /\ InputElement(kb.result[a].val)
  /\ (gEn /\ Absent(gb.valueTransformer)) =>
       \A a \in 1..Len(gb.result) : \A b \in 1..Len(gb.result[a].val) :
         ~Absent(gb.result[a].val[b]) /\ InputElement(gb.result[a].val[b])

C28_Witness ==
  /\ kEn /\ gEn
  /\ Absent(kb.valueTransformer) /\ Absent(gb.valueTransformer)
  /\ arg2 = Fn("groupOrUnknown")
  /\ kb.pc = "returned" /\ gb.pc = "returned"
  /\ IsArray /\ Len(items.elems) = 3
  /\ items.elems[1] = Null /\ items.elems[3] = Undefined
  /\ kb.result = <<[key |-> Str("admin"), val |-> items.elems[2]]>>
  /\ gb.result = <<[key |-> Str("admin"), val |-> <<items.elems[2]>>]>>

\* ------------------------------------------------------------------------
\* C29  (as claimed) Under the default policy with a field-name key
\* descriptor, every null and every undefined element computes the key
\* undefined, and the entry under undefined belongs to the absent elements:
\* keyBy holds there the value of the last absent element visited and
\* groupBy lists there the values of the absent elements visited, in input
\* order.
\* ------------------------------------------------------------------------
DefaultFieldKey == IsArray /\ CallDefault /\ arg2.t = "string"

AbsentUpTo(n) == {j \in 1..n : Absent(items.elems[j])}
UndefinedKeyUpTo(n) == {j \in 1..n : kKey(j) = Ok(Undefined)}
LastOf(S) == CHOOSE j \in S : \A h \in S : h <= j

RECURSIVE ValuesOf(_, _, _)
ValuesOf(S, vt, n) ==
  IF n = 0 THEN << >>
  ELSE IF n \in S
         THEN Append(ValuesOf(S, vt, n - 1),
                     keyBy_computedValue(vt, items.elems[n], Num(n - 1)).v)
         ELSE ValuesOf(S, vt, n - 1)

AbsentKeyIsUndefined ==
  \A j \in 1..Len(items.elems) : Absent(items.elems[j]) => kKey(j) = Ok(Undefined)

C29_AbsentItemsOwnUndefinedEntry ==
  DefaultFieldKey =>
    /\ AbsentKeyIsUndefined
    /\ AbsentUpTo(kb.i) # {} =>
         /\ Undefined \in KeysOf(kb.result)
         /\ ValueUnder(kb.result, Undefined) = kVal(LastOf(AbsentUpTo(kb.i))).v
    /\ AbsentUpTo(gb.i) # {} =>
         /\ Undefined \in KeysOf(gb.result)
         /\ ValueUnder(gb.result, Undefined) =
              ValuesOf(AbsentUpTo(gb.i), gb.valueTransformer, gb.i)

\* C29  (amended) Under the default policy with a field-name key
\* descriptor, every null and every undefined element computes the key
\* undefined, never null.  The entry under undefined is shared by all
\* elements whose computed key is undefined, the absent ones and the
\* present ones that lack the field: keyBy holds there the value of the
\* last such element visited, groupBy lists there the values of all such
\* elements visited, in input order, and an entry under null comes from a
\* present element whose field is null.
C29_UndefinedEntryHoldsUndefinedKeys ==
  DefaultFieldKey =>
    /\ AbsentKeyIsUndefined
    /\ AbsentUpTo(kb.i) \subseteq UndefinedKeyUpTo(kb.i)
    /\ UndefinedKeyUpTo(kb.i) # {} =>
         /\ Undefined \in KeysOf(kb.result)
         /\ ValueUnder(kb.result, Undefined) = kVal(LastOf(UndefinedKeyUpTo(kb.i))).v
    /\ UndefinedKeyUpTo(gb.i) # {} =>
         /\ Undefined \in KeysOf(gb.result)
         /\ ValueUnder(gb.result, Undefined) =
              ValuesOf(UndefinedKeyUpTo(gb.i), gb.valueTransformer, gb.i)
    /\ \A a \in 1..Len(kb.result) :
         kb.result[a].key = Null =>
           \E j \in 1..kb.i : ~Absent(items.elems[j]) /\ kKey(j) = Ok(Null)

C29_Witness ==
  /\ DefaultFieldKey
  /\ kb.pc = "returned" /\ gb.pc = "returned"
  /\ Len(items.elems) = 3
  /\ items.elems[1] = Null /\ ~Absent(items.elems[2]) /\ items.elems[3] = Undefined
  /\ Absent(kb.valueTransformer)
  /\ kb.result = <<[key |-> Undefined, val |-> Undefined]>>
  /\ gb.result = <<[key |-> Undefined, val |-> <<Null, items.elems[2], Undefined>>]>>

====
